---------------------------- MODULE Spec2Model ----------------------------
(***************************************************************************)
(* Model of the Markdown processor (class Markdown): construction          *)
(* (commonmark parse followed by the escapeLinks rewrite walk) and the     *)
(* three queries isPlainText, toHTML and toPlaintext.                      *)
(*                                                                         *)
(* Strings are sequences of symbols.  A symbol is one character of the     *)
(* input, except that a whole URL prefix and a whole HTML tag are each one *)
(* symbol (URL, the members of Tags): the code never looks inside them     *)
(* other than through the regular expressions modelled by TagInner,        *)
(* TagClose, MatchesMaths and MatchesTag.                                  *)
(***************************************************************************)
EXTENDS Naturals, Sequences, FiniteSets

\* ------------------------------------------------------------------ bounds
\* The longest input of Spec, counted in words of Words.
MaxWords == 4
\* The longest input of SpecBlocks, counted in words of BlockWords.
MaxBlockWords == 3
\* The longest input of SpecEscapes, counted in words of EscapeWords.
MaxEscapeWords == 4
MaxFailures == 3
MaxKeyRequests == 2

\* ----------------------------------------------------------------- symbols
Letter == "w"
Space == " "
Newline == "\n"
Underscore == "_"
Quote == "\""
Hash == "#"
\* "http://e.com/": a scheme and host; it starts with a letter and ends
\* with a punctuation character.
URL == "http://e.com/"

TagU == "<u>"
TagUClose == "</u>"
TagB == "<b>"
TagUAttr == "<u class=\"x\">"
TagSpanMaths == "<span data-mx-maths=\"x\">"
TagSpan == "<span>"
TagSpanClose == "</span>"
Tags == {TagU, TagUClose, TagB, TagUAttr, TagSpanMaths, TagSpan, TagSpanClose}
\* An autolink: the URL prefix between "<" and ">".
AutoLink == "<http://e.com/>"

\* An inline link with a destination and a title that both hold a character
\* the renderer escapes; the parser reads it as a whole.
Amp == "&"
TitleText == "t"
TitledLink == "[w](http://e.com/& 't\"')"

\* A backslash followed by a character it escapes.
EscUnderscore == "\\_"
EscQuote == "\\\""
Escapes == {EscUnderscore, EscQuote}

\* node.literal === null
NullLit == <<"null">>

\* ----------------------------------------------------- sequence utilities
RECURSIVE Concat(_)
Concat(ss) == IF ss = <<>> THEN <<>> ELSE Head(ss) \o Concat(Tail(ss))

\* The sequences of at most n elements of S.
SeqsUpTo(S, n) == UNION {[1..k -> S] : k \in 0..n}

\* s without its leading spaces / without its trailing spaces.
RECURSIVE StripLeft(_)
StripLeft(s) ==
    IF s # <<>> /\ Head(s) = Space THEN StripLeft(Tail(s)) ELSE s

RECURSIVE StripRight(_)
StripRight(s) ==
    IF s # <<>> /\ s[Len(s)] = Space
    THEN StripRight(SubSeq(s, 1, Len(s) - 1)) ELSE s

\* String.prototype.trim on a string of spaces and newlines.
RECURSIVE Trim(_)
Trim(s) ==
    IF s # <<>> /\ Head(s) \in {Space, Newline} THEN Trim(Tail(s))
    ELSE IF s # <<>> /\ s[Len(s)] \in {Space, Newline}
         THEN Trim(SubSeq(s, 1, Len(s) - 1))
         ELSE s

IsBlank(s) == \A i \in 1..Len(s) : s[i] = Space

\* s contains t as a contiguous run.
Contains(s, t) ==
    \E i \in 0..(Len(s) - Len(t)) : SubSeq(s, i + 1, i + Len(t)) = t


\* ------------------------------------------------- commonmark: block phase
\* The parser is the commonmark library; it is modelled on the fragment of
\* CommonMark the symbols can spell: paragraphs, blank lines, ATX headings,
\* thematic breaks, HTML blocks of kind 7 (one tag alone on its line),
\* soft and hard line breaks, inline HTML and emphasis with '_'.

\* A parsed node before it is linked into the tree.
Mk(type, literal, children) ==
    [type |-> type, literal |-> literal, level |-> 0, children |-> children,
     destination |-> NullLit, title |-> NullLit,
     canOpen |-> FALSE, canClose |-> FALSE]

RECURSIVE SplitLines(_, _)
SplitLines(s, cur) ==
    IF s = <<>> THEN <<cur>>
    ELSE IF Head(s) = Newline THEN <<cur>> \o SplitLines(Tail(s), <<>>)
    ELSE SplitLines(Tail(s), Append(cur, Head(s)))

\* input.split(reLineEnding), the line a final newline creates dropped.
Lines(input) ==
    LET ls == SplitLines(input, <<>>)
    IN IF input # <<>> /\ input[Len(input)] = Newline
       THEN SubSeq(ls, 1, Len(ls) - 1) ELSE ls

RECURSIVE JoinLines(_)
JoinLines(ls) ==
    IF ls = <<>> THEN <<>>
    ELSE IF Len(ls) = 1 THEN ls[1]
    ELSE ls[1] \o <<Newline>> \o JoinLines(Tail(ls))

RECURSIVE LeadingCount(_, _)
LeadingCount(s, c) ==
    IF s # <<>> /\ Head(s) = c THEN 1 + LeadingCount(Tail(s), c) ELSE 0

RECURSIVE TrailingCount(_, _)
TrailingCount(s, c) ==
    IF s # <<>> /\ s[Len(s)] = c
    THEN 1 + TrailingCount(SubSeq(s, 1, Len(s) - 1), c) ELSE 0

\* reATXHeadingMarker = /^#{1,6}(?:[ \t]+|$)/ on the line from its first
\* non-space character.
IsATXHeading(rest) ==
    LET k == LeadingCount(rest, Hash)
    IN k \in 1..6 /\ (Len(rest) = k \/ rest[k + 1] = Space)

\* The heading's content: the rest of the line with the closing sequence
\* removed, .replace(/^[ \t]*#+[ \t]*$/, "").replace(/[ \t]+#+[ \t]*$/, "").
ATXContent(rest) ==
    LET k == LeadingCount(rest, Hash)
        c0 == StripLeft(SubSeq(rest, k + 1, Len(rest)))
        core == StripRight(c0)
        h == TrailingCount(core, Hash)
        c2 == SubSeq(core, 1, Len(core) - h)
    IN IF core # <<>> /\ h = Len(core) THEN <<>>
       ELSE IF h >= 1 /\ c2 # <<>> /\ c2[Len(c2)] = Space THEN StripRight(c2)
       ELSE c0

\* reHtmlBlockOpen[7]: a complete open or closing tag followed only by
\* white space.
IsHtmlBlockStart(rest) ==
    rest # <<>> /\ Head(rest) \in Tags /\ IsBlank(Tail(rest))

\* reThematicBreak, its '_' alternative: /^(?:_[ \t]*){3,}$/.
IsThematicBreak(rest) ==
    /\ \A i \in 1..Len(rest) : rest[i] \in {Underscore, Space}
    /\ Cardinality({i \in 1..Len(rest) : rest[i] = Underscore}) >= 3

\* Parser.finalize of the open leaf block.
CloseOpen(st) ==
    IF st.open = "none" THEN st
    ELSE [blocks |-> Append(st.blocks,
                        [type |-> st.open, level |-> 0,
                         content |-> JoinLines(st.lines)]),
          open |-> "none", lines |-> <<>>]

\* Parser.incorporateLine.
IncorporateLine(st, line) ==
    LET rest == StripLeft(line)
        closed == CloseOpen(st)
    IN IF st.open = "html_block"
       THEN IF IsBlank(line) THEN closed
            ELSE [st EXCEPT !.lines = Append(@, line)]
       ELSE IF IsBlank(line) THEN closed
       ELSE IF IsATXHeading(rest)
       THEN [closed EXCEPT !.blocks = Append(@,
                [type |-> "heading", level |-> LeadingCount(rest, Hash),
                 content |-> ATXContent(rest)])]
       ELSE IF IsHtmlBlockStart(rest) /\ st.open # "paragraph"
       THEN [blocks |-> st.blocks, open |-> "html_block", lines |-> <<line>>]
       ELSE IF IsThematicBreak(rest)
       THEN [closed EXCEPT !.blocks = Append(@,
                [type |-> "thematic_break", level |-> 0, content |-> <<>>])]
       ELSE IF st.open = "paragraph"
       THEN [st EXCEPT !.lines = Append(@, rest)]
       ELSE [blocks |-> st.blocks, open |-> "paragraph", lines |-> <<rest>>]

RECURSIVE ParseBlocks(_, _)
ParseBlocks(st, ls) ==
    IF ls = <<>> THEN CloseOpen(st).blocks
    ELSE ParseBlocks(IncorporateLine(st, Head(ls)), Tail(ls))

\* ------------------------------------------------ commonmark: inline phase
\* The class of the character before / after a delimiter run.
ClassFirst(c) ==
    IF c \in {Space, Newline} THEN "space"
    ELSE IF c \in {Letter, URL} THEN "alnum" ELSE "punct"

ClassLast(c) ==
    IF c \in {Space, Newline} THEN "space"
    ELSE IF c = Letter THEN "alnum" ELSE "punct"

\* InlineParser.scanDelims for a run of one '_' at position i of s.
ScanDelims(s, i) ==
    LET before == IF i = 1 THEN "space" ELSE ClassLast(s[i - 1])
        after == IF i = Len(s) THEN "space" ELSE ClassFirst(s[i + 1])
        leftFlanking == /\ after # "space"
                        /\ (after # "punct" \/ before # "alnum")
        rightFlanking == /\ before # "space"
                         /\ (before # "punct" \/ after # "alnum")
    IN [Mk("delim", <<Underscore>>, <<>>) EXCEPT
          !.canOpen = leftFlanking /\ (~rightFlanking \/ before = "punct"),
          !.canClose = rightFlanking /\ (~leftFlanking \/ after = "punct")]

\* The characters reMain takes in one run: a text node.
Ordinary(c) ==
    c \notin ({Newline, Underscore, Quote, AutoLink, TitledLink}
                 \cup Tags \cup Escapes)

\* The character a backslash escape stands for.
Escaped(c) == IF c = EscUnderscore THEN Underscore ELSE Quote

RECURSIVE RunEnd(_, _)
RunEnd(s, i) ==
    IF i < Len(s) /\ Ordinary(s[i + 1]) THEN RunEnd(s, i + 1) ELSE i

RECURSIVE SkipSpaces(_, _)
SkipSpaces(s, i) ==
    IF i <= Len(s) /\ s[i] = Space THEN SkipSpaces(s, i + 1) ELSE i

\* InlineParser.parseInline, repeated: the flat list of inline nodes.
RECURSIVE ScanInlines(_, _, _)
ScanInlines(s, i, out) ==
    IF i > Len(s) THEN out
    ELSE LET c == s[i]
             n == Len(out)
         IN IF c = Newline
            THEN \* parseNewline
                 LET lit == IF n > 0 THEN out[n].literal ELSE <<>>
                     trailing == n > 0 /\ out[n].type = "text"
                                 /\ lit # <<>> /\ lit[Len(lit)] = Space
                     hard == trailing /\ Len(lit) >= 2
                             /\ lit[Len(lit) - 1] = Space
                     out1 == IF trailing
                             THEN [out EXCEPT ![n].literal = StripRight(lit)]
                             ELSE out
                     br == Mk(IF hard THEN "linebreak" ELSE "softbreak",
                              NullLit, <<>>)
                 IN ScanInlines(s, SkipSpaces(s, i + 1), Append(out1, br))
            ELSE IF c = Underscore
            THEN ScanInlines(s, i + 1, Append(out, ScanDelims(s, i)))
            ELSE IF c = Quote
            THEN ScanInlines(s, i + 1, Append(out, Mk("text", <<c>>, <<>>)))
            ELSE IF c = AutoLink
            THEN \* parseAutolink: destination, empty title, the URL as text
                 ScanInlines(s, i + 1,
                     Append(out,
                            [Mk("link", NullLit, <<Mk("text", <<URL>>, <<>>)>>)
                               EXCEPT !.destination = <<URL>>,
                                      !.title = <<>>]))
            ELSE IF c \in Escapes
            THEN \* parseBackslash: a text node of the escaped character
                 ScanInlines(s, i + 1,
                             Append(out, Mk("text", <<Escaped(c)>>, <<>>)))
            ELSE IF c = TitledLink
            THEN \* parseCloseBracket: an inline link with its title
                 ScanInlines(s, i + 1,
                     Append(out,
                            [Mk("link", NullLit,
                                <<Mk("text", <<Letter>>, <<>>)>>)
                               EXCEPT !.destination = <<URL, Amp>>,
                                      !.title = <<TitleText, Quote>>]))
            ELSE IF c \in Tags
            THEN ScanInlines(s, i + 1,
                             Append(out, Mk("html_inline", <<c>>, <<>>)))
            ELSE LET j == RunEnd(s, i)
                 IN ScanInlines(s, j + 1,
                        Append(out, Mk("text", SubSeq(s, i, j), <<>>)))

\* A delimiter that matched nothing stays in the tree as a text node.
AsText(x) ==
    IF x.type = "delim" THEN Mk("text", x.literal, <<>>) ELSE x

\* The nearest opener below the top of the delimiter stack, 0 if none.
OpenerIndex(out) ==
    LET js == {j \in 1..Len(out) : out[j].type = "delim" /\ out[j].canOpen}
    IN IF js = {} THEN 0 ELSE CHOOSE j \in js : \A k \in js : k <= j

\* InlineParser.processEmphasis for delimiter runs of one '_': every closer
\* takes the nearest opener before it; the nodes between them become the
\* children of a new emph node and the delimiters between them plain text.
RECURSIVE ProcessEmphasis(_, _)
ProcessEmphasis(items, out) ==
    IF items = <<>> THEN [i \in 1..Len(out) |-> AsText(out[i])]
    ELSE LET x == Head(items)
             j == OpenerIndex(out)
         IN IF x.type = "delim" /\ x.canClose /\ j > 0
            THEN LET kids == [k \in 1..(Len(out) - j) |-> AsText(out[j + k])]
                 IN ProcessEmphasis(Tail(items),
                        Append(SubSeq(out, 1, j - 1),
                               Mk("emph", NullLit, kids)))
            ELSE IF x.type = "delim" /\ ~x.canOpen
            THEN ProcessEmphasis(Tail(items), Append(out, AsText(x)))
            ELSE ProcessEmphasis(Tail(items), Append(out, x))

\* InlineParser.parse: the inline children of a paragraph or heading.
ParseInlines(content) ==
    ProcessEmphasis(ScanInlines(Trim(content), 1, <<>>), <<>>)

BlockNode(b) ==
    IF b.type \in {"paragraph", "heading"}
    THEN [Mk(b.type, NullLit, ParseInlines(b.content)) EXCEPT
            !.level = b.level]
    ELSE IF b.type = "html_block" THEN Mk("html_block", b.content, <<>>)
    ELSE Mk(b.type, NullLit, <<>>)

\* Parser.parse: the document as a nested value.
ParseDocument(input) ==
    LET bs == ParseBlocks([blocks |-> <<>>, open |-> "none", lines |-> <<>>],
                          Lines(input))
    IN Mk("document", NullLit, [i \in 1..Len(bs) |-> BlockNode(bs[i])])


\* --------------------------------------------------------- the linked tree
\* commonmark.Node: the tree is a table of nodes, node 1 the document;
\* 0 is the null reference.
NewNode(type, literal, level, parent) ==
    [type |-> type, literal |-> literal, level |-> level, parent |-> parent,
     destination |-> NullLit, title |-> NullLit,
     firstChild |-> 0, lastChild |-> 0, prev |-> 0, next |-> 0]

\* Node.appendChild of each parsed node, in document order.
RECURSIVE AddTree(_, _, _)
RECURSIVE AddForest(_, _, _, _)
AddTree(tbl, t, par) ==
    AddForest(Append(tbl, [NewNode(t.type, t.literal, t.level, par) EXCEPT
                              !.destination = t.destination,
                              !.title = t.title]),
              t.children, Len(tbl) + 1, 0)

AddForest(tbl, ts, par, prevId) ==
    IF ts = <<>> THEN tbl
    ELSE LET id == Len(tbl) + 1
             t1 == AddTree(tbl, Head(ts), par)
             t2 == [t1 EXCEPT ![id].prev = prevId,
                              ![par].lastChild = id,
                              ![par].firstChild = IF prevId = 0 THEN id ELSE @]
             t3 == IF prevId = 0 THEN t2
                   ELSE [t2 EXCEPT ![prevId].next = id]
         IN AddForest(t3, Tail(ts), par, id)

\* new commonmark.Parser().parse(input)
Parse(input) == AddTree(<<>>, ParseDocument(input), 0)

Root == 1

\* Node.isContainer
IsContainer(type) ==
    type \in {"document", "block_quote", "list", "item", "paragraph",
              "heading", "emph", "strong", "link", "image",
              "custom_inline", "custom_block"}

\* NodeWalker.next: the walker's position after it has returned the event
\* (cur, entering); the position is computed before the caller handles
\* the event.
WalkerNext(tbl, cur, entering) ==
    IF entering /\ IsContainer(tbl[cur].type)
    THEN IF tbl[cur].firstChild # 0
         THEN [cur |-> tbl[cur].firstChild, entering |-> TRUE]
         ELSE [cur |-> cur, entering |-> FALSE]
    ELSE IF cur = Root THEN [cur |-> 0, entering |-> entering]
    ELSE IF tbl[cur].next = 0
    THEN [cur |-> tbl[cur].parent, entering |-> FALSE]
    ELSE [cur |-> tbl[cur].next, entering |-> TRUE]

\* A variant that puts the new text node before `at` instead of after it;
\* the placement properties of the rewrite must tell the two apart.
InsertBefore(tbl, at, literal) ==
    LET id == Len(tbl) + 1
        pv == tbl[at].prev
        par == tbl[at].parent
        new == [NewNode("text", literal, 0, par) EXCEPT
                  !.prev = pv, !.next = at]
        t1 == Append(tbl, new)
        t2 == [t1 EXCEPT ![at].prev = id]
    IN IF pv # 0 THEN [t2 EXCEPT ![pv].next = id]
       ELSE [t2 EXCEPT ![par].firstChild = id]

\* Node.insertAfter of a new text node with the given literal.
InsertAfter(tbl, at, literal) ==
    LET id == Len(tbl) + 1
        nx == tbl[at].next
        par == tbl[at].parent
        new == [NewNode("text", literal, 0, par) EXCEPT
                  !.prev = at, !.next = nx]
        t1 == Append(tbl, new)
        t2 == [t1 EXCEPT ![at].next = id]
    IN IF nx # 0 THEN [t2 EXCEPT ![nx].prev = id]
       ELSE [t2 EXCEPT ![par].lastChild = id]

\* ------------------------------------------------------------------ linkify
\* linkify.find of ./linkify-matrix: the links of a text, left to right.
\* A link starts at a URL prefix and runs over the characters a URL may
\* hold; a space, a quote, a line end or a tag ends it.
LinkChar(c) == c \in {Letter, Underscore, URL, Hash}

RECURSIVE LinkEnd(_, _)
LinkEnd(s, i) ==
    IF i < Len(s) /\ LinkChar(s[i + 1]) THEN LinkEnd(s, i + 1) ELSE i

RECURSIVE FindFrom(_, _)
FindFrom(s, i) ==
    IF i > Len(s) THEN <<>>
    ELSE IF s[i] = URL
    THEN LET j == LinkEnd(s, i)
         IN <<SubSeq(s, i, j)>> \o FindFrom(s, j + 1)
    ELSE FindFrom(s, i + 1)

Find(s) == FindFrom(s, 1)

\* ------------------------------------------------------------- escapeLinks
\* A JavaScript string that is truthy: neither null nor empty.
Truthy(literal) == literal # NullLit /\ literal # <<>>

\* The characters of a literal up to its first space.
RECURSIVE UntilSpace(_)
UntilSpace(lit) ==
    IF lit = <<>> \/ Head(lit) = Space THEN <<>>
    ELSE <<Head(lit)>> \o UntilSpace(Tail(lit))

HasSpace(lit) == \E i \in 1..Len(lit) : lit[i] = Space

RECURSIVE getTextUntilEndOrLinebreak(_, _)
getTextUntilEndOrLinebreak(tbl, node) ==
    IF node = 0 \/ tbl[node].type \in {"softbreak", "linebreak"} THEN <<>>
    ELSE IF tbl[node].type = "text" /\ Truthy(tbl[node].literal)
    THEN IF HasSpace(tbl[node].literal)
         THEN UntilSpace(tbl[node].literal)
         ELSE tbl[node].literal
                 \o getTextUntilEndOrLinebreak(tbl, tbl[node].next)
    ELSE getTextUntilEndOrLinebreak(tbl, tbl[node].next)

\* The reconstructed token of the emphasis node for one found link.
NewText(tbl, node, value) ==
    value \o <<Underscore>> \o tbl[tbl[node].firstChild].literal
          \o <<Underscore>> \o getTextUntilEndOrLinebreak(tbl, node)

\* node.firstChild.literal = ''; node.literal = ''
Blank(tbl, node) ==
    [tbl EXCEPT ![tbl[node].firstChild].literal = <<>>,
                ![node].literal = <<>>]

\* The two logger.error calls of one skipped rewrite, as one entry.
LogEntry(tbl, node, buffer, value) ==
    [node |-> node, text |-> buffer, newText |-> NewText(tbl, node, value)]

\* A variant that applies the fix without counting the links of the token.
FixLinkUnchecked(st, node, prevNode, buffer, value) ==
    IF Truthy(st.tbl[st.tbl[node].firstChild].literal)
    THEN [st EXCEPT !.tbl =
             Blank(InsertAfter(st.tbl, prevNode,
                       <<Underscore>>
                          \o st.tbl[st.tbl[node].firstChild].literal
                          \o <<Underscore>>),
                   node)]
    ELSE st

\* A variant that does not look at the child literal before it handles a
\* link, so that a later link of the same buffer is handled like the first.
FixLinkAgain(st, node, prevNode, buffer, value) ==
    IF Len(Find(NewText(st.tbl, node, value))) = 1
    THEN [st EXCEPT !.tbl =
             Blank(InsertAfter(st.tbl, prevNode,
                       <<Underscore>>
                          \o st.tbl[st.tbl[node].firstChild].literal
                          \o <<Underscore>>),
                   node)]
    ELSE [st EXCEPT !.log = @ \cup {LogEntry(st.tbl, node, buffer, value)}]

\* The body of `for (const { value } of foundLinks)` for one link; st holds
\* the tree and what has been logged.
FixLink(st, node, prevNode, buffer, value) ==
    IF Truthy(st.tbl[st.tbl[node].firstChild].literal)
    THEN IF Len(Find(NewText(st.tbl, node, value))) = 1
         THEN [st EXCEPT !.tbl =
                  Blank(InsertAfter(st.tbl, prevNode,
                            <<Underscore>>
                               \o st.tbl[st.tbl[node].firstChild].literal
                               \o <<Underscore>>),
                        node)]
         ELSE [st EXCEPT !.log = @ \cup {LogEntry(st.tbl, node, buffer, value)}]
    ELSE st

RECURSIVE FixLinks(_, _, _, _, _)
FixLinks(st, node, prevNode, buffer, links) ==
    IF links = <<>> THEN st
    ELSE FixLinks(FixLink(st, node, prevNode, buffer, Head(links)),
                  node, prevNode, buffer, Tail(links))


\* ------------------------------------------------------- isAllowedHtmlTag
ALLOWED_HTML_TAGS == {"sub", "sup", "del", "u"}

\* A variant that also counts headings as text.
TextNodesAndHeading ==
    {"text", "softbreak", "linebreak", "paragraph", "document", "heading"}

\* These types of node are definitely text
TEXT_NODES == {"text", "softbreak", "linebreak", "paragraph", "document"}

\* Whether a tag symbol starts with "</", and its text between the "<" or
\* "</" and the final ">".
TagClose(c) == c \in {TagUClose, TagSpanClose}

TagInner(c) ==
    CASE c = AutoLink -> "http://e.com/"
      [] c \in {TagU, TagUClose} -> "u"
      [] c = TagB -> "b"
      [] c = TagUAttr -> "u class=\"x\""
      [] c = TagSpanMaths -> "span data-mx-maths=\"x\""
      [] c \in {TagSpan, TagSpanClose} -> "span"

\* literal.match('^<((div|span) data-mx-maths="[^"]*"|/(div|span))>$')
MatchesMaths(lit) ==
    /\ Len(lit) = 1 /\ lit[1] \in Tags
    /\ IF TagClose(lit[1]) THEN TagInner(lit[1]) \in {"div", "span"}
       ELSE TagInner(lit[1]) \in {"div data-mx-maths=\"x\"",
                                  "span data-mx-maths=\"x\""}

\* /^<\/?(.*)>$/.exec(literal) is not null: one line from "<" to ">".
MatchesTag(lit) ==
    /\ lit # <<>>
    /\ lit[1] \in Tags \cup {AutoLink}
    /\ lit[Len(lit)] \in Tags \cup {AutoLink}
    /\ \A i \in 1..Len(lit) : lit[i] # Newline

\* matches[1]; a run of several symbols holds a ">" and is no tag name.
TagGroup(lit) == IF Len(lit) = 1 THEN TagInner(lit[1]) ELSE ""

\* A variant that lets every literal of the shape <...> through.
AnyTagAllowed(tbl, node) == MatchesTag(tbl[node].literal)

isAllowedHtmlTag(tbl, node) ==
    LET lit == tbl[node].literal
    IN IF lit # NullLit /\ MatchesMaths(lit) THEN TRUE
       ELSE IF MatchesTag(lit) THEN TagGroup(lit) \in ALLOWED_HTML_TAGS
       ELSE FALSE

\* A variant that takes every document for a single line.
NeverMultiLine(tbl, node) == FALSE

RECURSIVE isMultiLine(_, _)
isMultiLine(tbl, node) ==
    IF tbl[node].parent # 0 THEN isMultiLine(tbl, tbl[node].parent)
    ELSE tbl[node].firstChild # tbl[node].lastChild

\* ------------------------------------------------------------ isPlainText
RECURSIVE IsPlainFrom(_, _, _)
IsPlainFrom(tbl, cur, entering) ==
    IF cur = 0 THEN TRUE
    ELSE LET nx == WalkerNext(tbl, cur, entering)
         IN IF tbl[cur].type \in TEXT_NODES
            THEN IsPlainFrom(tbl, nx.cur, nx.entering)
            ELSE IF tbl[cur].type \in {"html_inline", "html_block"}
            THEN IF isAllowedHtmlTag(tbl, cur) THEN FALSE
                 ELSE IsPlainFrom(tbl, nx.cur, nx.entering)
            ELSE FALSE

\* A variant for which every html node makes the document non-plain.
OnlyTextNodes(tbl) == \A n \in DOMAIN tbl : tbl[n].type \in TEXT_NODES

isPlainText(tbl) == IsPlainFrom(tbl, Root, TRUE)

\* ------------------------------------------------- commonmark.HtmlRenderer
\* What escapeXml (commonmark) and escape (lodash) make of one symbol: both
\* replace & < > and ", and the symbols hold no apostrophe.
EscSym(c) ==
    CASE c = Quote -> "&quot;"
      [] c = Amp -> "&amp;"
      [] c = TagU -> "&lt;u&gt;"
      [] c = TagUClose -> "&lt;/u&gt;"
      [] c = TagB -> "&lt;b&gt;"
      [] c = TagUAttr -> "&lt;u class=&quot;x&quot;&gt;"
      [] c = TagSpanMaths -> "&lt;span data-mx-maths=&quot;x&quot;&gt;"
      [] c = TagSpan -> "&lt;span&gt;"
      [] c = TagSpanClose -> "&lt;/span&gt;"
      [] c = AutoLink -> "&lt;http://e.com/&gt;"
      [] OTHER -> c

Esc(str) == [i \in 1..Len(str) |-> EscSym(str[i])]

\* Renderer.render starts with buffer = '' and lastOut = '\n'.
NewRenderer == [buffer |-> <<>>, lastOut |-> <<Newline>>, threw |-> FALSE]

Lit(r, str) == [r EXCEPT !.buffer = @ \o str, !.lastOut = str]

Cr(r) == IF r.lastOut # <<Newline>> THEN Lit(r, <<Newline>>) ELSE r

TagOut(r, t) == [r EXCEPT !.buffer = Append(@, t), !.lastOut = <<">">>]

\* realEmph(node): the renderer's own emph, function emph(node, entering)
\* { this.tag(entering ? 'em' : '/em') }, called without a receiver:
\* this.tag is read from undefined and a TypeError is thrown.
RealEmph(r) == [r EXCEPT !.threw = TRUE]

\* renderer.emph of toHTML and of toPlaintext
Emph(tbl, node, r) ==
    IF tbl[node].type = "emph" /\ tbl[node].literal = <<>> THEN r
    ELSE RealEmph(r)

\* "<h" + node.level + ">" and its closing tag
HeadingOpen == <<"<h1>", "<h2>", "<h3>", "<h4>", "<h5>", "<h6>">>
HeadingClose == <<"</h1>", "</h2>", "</h3>", "</h4>", "</h5>", "</h6>">>

\* A sequence of strings as one string.
RECURSIVE Flat(_)
Flat(ss) == IF ss = <<>> THEN "" ELSE Head(ss) \o Flat(Tail(ss))

\* this.tag('a', attrs) for the attributes of a link
AnchorOpen(destination, title, externalLinks) ==
    "<a href=\"" \o Flat(Esc(destination)) \o "\""
       \o (IF Truthy(title) THEN " title=\"" \o Flat(Esc(title)) \o "\""
           ELSE "")
       \o (IF externalLinks
           THEN " target=\"_blank\" rel=\"noreferrer noopener\"" ELSE "")
       \o ">"

\* A variant that marks every link as external, whatever the option.
LinkAlwaysExternal(tbl, node, entering, r, externalLinks) ==
    IF entering
    THEN TagOut(r, AnchorOpen(tbl[node].destination, tbl[node].title, TRUE))
    ELSE TagOut(r, "</a>")

\* renderer.link of toHTML; with externalLinks false it is the renderer's
\* own link, which toPlaintext keeps.
Link(tbl, node, entering, r, externalLinks) ==
    IF entering
    THEN TagOut(r, AnchorOpen(tbl[node].destination, tbl[node].title,
                              externalLinks))
    ELSE TagOut(r, "</a>")

\* The renderer's own handlers that neither query overrides.
DefaultHandler(tbl, node, entering, r, softbreak) ==
    LET type == tbl[node].type
    IN CASE type = "text" -> Lit(r, Esc(tbl[node].literal))
         [] type = "link" -> Link(tbl, node, entering, r, FALSE)
         [] type = "softbreak" -> Lit(r, softbreak)
         [] type = "linebreak" -> Cr(TagOut(r, "<br />"))
         [] type = "html_inline" -> Lit(r, tbl[node].literal)
         [] type = "heading" ->
               IF entering THEN TagOut(Cr(r), HeadingOpen[tbl[node].level])
               ELSE Cr(TagOut(r, HeadingClose[tbl[node].level]))
         [] type = "thematic_break" -> Cr(TagOut(Cr(r), "<hr />"))
         [] OTHER -> r

\* ----------------------------------------------------------------- toHTML
\* renderer.html_inline of toHTML, which its html_block calls too
HtmlInline(tbl, node, r) ==
    IF isAllowedHtmlTag(tbl, node) THEN Lit(r, tbl[node].literal)
    ELSE Lit(r, Esc(tbl[node].literal))

\* realParagraph: the renderer's own paragraph, outside a tight list.
RealParagraph(tbl, node, entering, r) ==
    IF entering THEN TagOut(Cr(r), "<p>") ELSE Cr(TagOut(r, "</p>"))

\* A variant that wraps every paragraph, as the renderer's own does.
AlwaysParagraph(tbl, node, entering, r) ==
    RealParagraph(tbl, node, entering, r)

\* renderer.paragraph of toHTML
HtmlParagraph(tbl, node, entering, r) ==
    IF isMultiLine(tbl, node) THEN RealParagraph(tbl, node, entering, r)
    ELSE r

\* renderer.text of toHTML: renderer.out(node.literal), and the out of an
\* HtmlRenderer is lit(esc(s)).
HtmlText(tbl, node, r) == Lit(r, Esc(tbl[node].literal))

\* A variant whose renderer keeps the default softbreak, a line end.
HtmlHandlerBareBreaks(tbl, node, entering, r, externalLinks) ==
    LET type == tbl[node].type
    IN CASE type = "paragraph" -> HtmlParagraph(tbl, node, entering, r)
         [] type = "text" -> HtmlText(tbl, node, r)
         [] type = "link" -> Link(tbl, node, entering, r, externalLinks)
         [] type \in {"html_inline", "html_block"} -> HtmlInline(tbl, node, r)
         [] type = "emph" -> Emph(tbl, node, r)
         [] OTHER -> DefaultHandler(tbl, node, entering, r, <<Newline>>)

HtmlHandler(tbl, node, entering, r, externalLinks) ==
    LET type == tbl[node].type
    IN CASE type = "paragraph" -> HtmlParagraph(tbl, node, entering, r)
         [] type = "text" -> HtmlText(tbl, node, r)
         [] type = "link" -> Link(tbl, node, entering, r, externalLinks)
         [] type \in {"html_inline", "html_block"} -> HtmlInline(tbl, node, r)
         [] type = "emph" -> Emph(tbl, node, r)
         [] OTHER -> DefaultHandler(tbl, node, entering, r, <<"<br />">>)

\* ------------------------------------------------------------ toPlaintext
\* A variant that also puts a blank line after the last paragraph.
BlankAfterEveryParagraph(tbl, node, entering, r) ==
    IF isMultiLine(tbl, node) /\ ~entering
    THEN Lit(r, <<Newline, Newline>>)
    ELSE r

\* renderer.paragraph of toPlaintext
PlainParagraph(tbl, node, entering, r) ==
    IF isMultiLine(tbl, node) /\ ~entering /\ tbl[node].next # 0
    THEN Lit(r, <<Newline, Newline>>)
    ELSE r

\* renderer.html_block of toPlaintext
PlainHtmlBlock(tbl, node, r) ==
    LET r1 == Lit(r, tbl[node].literal)
    IN IF isMultiLine(tbl, node) /\ tbl[node].next # 0
       THEN Lit(r1, <<Newline, Newline>>)
       ELSE r1

PlainHandler(tbl, node, entering, r) ==
    LET type == tbl[node].type
    IN CASE type = "paragraph" -> PlainParagraph(tbl, node, entering, r)
         [] type = "html_block" -> PlainHtmlBlock(tbl, node, r)
         [] type = "emph" -> Emph(tbl, node, r)
         [] OTHER -> DefaultHandler(tbl, node, entering, r, <<Newline>>)

\* Renderer.render: every event of a walk of the tree goes to the handler
\* of the node's type; an exception ends the walk.
RECURSIVE RenderFrom(_, _, _, _, _)
RenderFrom(mode, tbl, cur, entering, r) ==
    IF cur = 0 \/ r.threw THEN r
    ELSE LET nx == WalkerNext(tbl, cur, entering)
             r1 == IF mode.plain THEN PlainHandler(tbl, cur, entering, r)
                   ELSE HtmlHandler(tbl, cur, entering, r,
                                    mode.externalLinks)
         IN RenderFrom(mode, tbl, nx.cur, nx.entering, r1)

\* What a call gave: a value returned, or an exception thrown.
NoResult == [kind |-> "none", bool |-> FALSE, str |-> <<>>]
Returned(str) == [kind |-> "returned", bool |-> FALSE, str |-> str]
ReturnedBool(b) == [kind |-> "returned", bool |-> b, str |-> <<>>]
Threw == [kind |-> "TypeError", bool |-> FALSE, str |-> <<>>]

Rendered(r) == IF r.threw THEN Threw ELSE Returned(r.buffer)

toHTML(tbl, externalLinks) ==
    Rendered(RenderFrom([plain |-> FALSE, externalLinks |-> externalLinks],
                        tbl, Root, TRUE, NewRenderer))

toPlaintext(tbl) ==
    Rendered(RenderFrom([plain |-> TRUE, externalLinks |-> FALSE],
                        tbl, Root, TRUE, NewRenderer))


\* ---------------------------------------------------------- isSelfLocation
\* JavaScript values: undefined, null and strings; an asset is undefined,
\* null or an object whose type is one of these values.
Undefined == [kind |-> "undefined", val |-> ""]
Null == [kind |-> "null", val |-> ""]
Str(v) == [kind |-> "string", val |-> v]

\* LocationAssetType
LocationAssetTypeSelf == Str("m.self")
LocationAssetTypePin == Str("m.pin")

AssetTypes ==
    {Undefined, Null, LocationAssetTypeSelf, LocationAssetTypePin,
     Str("org.example.unknown"), Str("")}

NoAsset(v) == [kind |-> v.kind, type |-> Undefined]
ObjectAsset(type) == [kind |-> "object", type |-> type]

Assets ==
    {NoAsset(Undefined), NoAsset(Null)} \cup {ObjectAsset(t) : t \in AssetTypes}

\* A location content: what it holds under the unstable and the stable name
\* of M_ASSET.
LocationContents == [unstable : Assets, stable : Assets]

NoContent == [unstable |-> NoAsset(Undefined), stable |-> NoAsset(Undefined)]

\* M_ASSET.findIn(locationContent): the value under the name if it is
\* truthy, the value under the other name otherwise.
findIn(content) ==
    IF content.unstable.kind = "object" THEN content.unstable
    ELSE content.stable

\* asset?.type
OptionalType(asset) ==
    IF asset.kind \in {"undefined", "null"} THEN Undefined ELSE asset.type

\* A variant without the default for a missing type.
AssetTypeIsSelf(content) ==
    OptionalType(findIn(content)) = LocationAssetTypeSelf

isSelfLocation(content) ==
    LET asset == findIn(content)
        assetType == IF OptionalType(asset).kind \in {"undefined", "null"}
                     THEN LocationAssetTypeSelf
                     ELSE OptionalType(asset)
    IN assetType = LocationAssetTypeSelf

\* ------------------------------------------------------ DecryptionFailureBar
\* The events of the room: findEventById gives an event for the first four
\* ids and nothing for the last; getWireContent().session_id of an event is
\* a string, or undefined for an event without the field.
EventIds == {"$e1", "$e2", "$e3", "$e4", "$e5"}

SessionIds == {"s1", "s2"}

NoEvent == [kind |-> "undefined", session_id |-> Undefined]

MatrixEvent(session_id) == [kind |-> "event", session_id |-> session_id]

\* room.findEventById(eventId)
findEventById(eventId) ==
    CASE eventId = "$e1" -> MatrixEvent(Str("s1"))
      [] eventId = "$e2" -> MatrixEvent(Str("s1"))
      [] eventId = "$e3" -> MatrixEvent(Str("s2"))
      [] eventId = "$e4" -> MatrixEvent(Undefined)
      [] OTHER -> NoEvent

\* !value for a string, undefined or null
Falsy(value) == value.kind \in {"undefined", "null"} \/ value.val = ""

\* The failures prop: a Set of event ids, in insertion order.
FailureSets ==
    {f \in SeqsUpTo(EventIds, MaxFailures) :
        \A i, j \in 1..Len(f) : f[i] = f[j] => i = j}

\* What one run of the effect has done so far: the sessions it has added to
\* newRequestedSessions and the events it has passed to
\* context.cancelAndResendEventRoomKeyRequest.
NoRequests == [newRequestedSessions |-> {}, calls |-> <<>>]

\* A variant of the loop's body that does not look at the sessions requested
\* by earlier runs of the effect.
RequestUnlessInThisRun(acc, eventId, requested) ==
    LET event == findEventById(eventId)
    IN IF event.kind = "undefined" THEN acc
       ELSE IF \/ Falsy(event.session_id)
               \/ event.session_id.val \in acc.newRequestedSessions
       THEN acc
       ELSE [newRequestedSessions |->
                acc.newRequestedSessions \cup {event.session_id.val},
             calls |-> Append(acc.calls, eventId)]

\* The body of `for (const eventId of failures)` for one event id.
RequestFor(acc, eventId, requested) ==
    LET event == findEventById(eventId)
    IN IF event.kind = "undefined" THEN acc
       ELSE IF \/ Falsy(event.session_id)
               \/ event.session_id.val \in requested
               \/ event.session_id.val \in acc.newRequestedSessions
       THEN acc
       ELSE [newRequestedSessions |->
                acc.newRequestedSessions \cup {event.session_id.val},
             calls |-> Append(acc.calls, eventId)]

RECURSIVE RequestLoop(_, _, _)
RequestLoop(acc, fs, requested) ==
    IF fs = <<>> THEN acc
    ELSE RequestLoop(RequestFor(acc, Head(fs), requested), Tail(fs),
                     requested)

\* The key request effect for the values its render has captured.
RequestKeys(needs, hasOther, fs, requested) ==
    IF needs \/ ~hasOther THEN NoRequests
    ELSE RequestLoop(NoRequests, fs, requested)

\* The number of elements of a sequence of event ids that belong to a
\* session.
RECURSIVE CallsFor(_, _)
CallsFor(calls, session) ==
    IF calls = <<>> THEN 0
    ELSE (IF findEventById(Head(calls)).session_id = Str(session)
          THEN 1 ELSE 0) + CallsFor(Tail(calls), session)

\* --------------------------------------------------- AccessibleTooltipButton
\* The values of the optional boolean prop forceHide.
ForceHideValues == {"undefined", "false", "true"}

\* No call of setState is waiting for the next render.
NotQueued == "none"

\* A variant of showTooltip that does not look at forceHide.
showTooltipAlways(props, queued) == "true"

\* showTooltip: the queued value of state.hover after the call.
showTooltip(props, queued) ==
    IF props = "true" THEN queued ELSE "true"

\* hideTooltip: the queued value of state.hover after the call.
hideTooltip(queued) == "false"

\* componentDidUpdate: the queued value of state.hover after the call.
componentDidUpdate(prevProps, props, state, queued) ==
    IF prevProps # "true" /\ props = "true" /\ state THEN "false"
    ELSE queued

\* ------------------------------------------------------------------ inputs
Words == {<<Letter>>, <<Space>>, <<Underscore>>, <<URL>>, <<Quote>>,
          <<Newline>>, <<Underscore, Letter, Underscore>>}

BlockWords == {<<Letter>>, <<Newline>>, <<Newline, Newline>>,
               <<Hash, Space>>, <<Underscore, Letter, Underscore>>,
               <<AutoLink>>, <<TitledLink>>}
              \cup {<<t>> : t \in Tags}

\* The inputs the modelled fragment of CommonMark covers: every delimiter
\* run is a single '_' (no strong emphasis), and no line is indented by
\* four or more spaces (no indented code block).
InFragment(s) ==
    /\ \A i \in 1..(Len(s) - 1) : ~(s[i] = Underscore /\ s[i + 1] = Underscore)
    /\ \A i \in 1..Len(Lines(s)) :
          LeadingCount(Lines(s)[i], Space) < 4 \/ IsBlank(Lines(s)[i])

InputsOver(W, n) ==
    {s \in {Concat(ws) : ws \in SeqsUpTo(W, n)} : InFragment(s)}

Inputs == InputsOver(Words, MaxWords)
BlockInputs == InputsOver(BlockWords, MaxBlockWords)

EscapeWords == {<<Letter>>, <<Space>>, <<Newline>>, <<Quote>>,
                <<EscUnderscore>>, <<EscQuote>>}
EscapeInputs == InputsOver(EscapeWords, MaxEscapeWords)

\* ------------------------------------------------------------------- state
VARIABLES
    input,          \* this.input
    parsed,         \* this.parsed: the table of nodes
    pc,             \* "escapeLinks" inside the constructor, then "ready"
    walker,         \* escapeLinks: the walker's current node and entering
    text,           \* escapeLinks: text
    isInPara,       \* escapeLinks: isInPara
    previousNode,   \* escapeLinks: previousNode, 0 for null
    logged,         \* escapeLinks: the rewrites skipped with logger.error
    results,        \* what each query gave when it was last called
    locationContent, \* isSelfLocation: its argument
    selfLocation,   \* isSelfLocation: what it returned, once called
    failures,       \* DecryptionFailureBar: the failures prop
    needsVerification,        \* DecryptionFailureBar: state
    hasOtherVerifiedDevices,  \* DecryptionFailureBar: state
    requestedSessions,        \* DecryptionFailureBar: state
    queuedSessions, \* the sessions of the queued setRequestedSessions calls
    effectDue,      \* the key request effect has to run for the last render
    keyRequests,    \* calls of cancelAndResendEventRoomKeyRequest by session
    requestedEvents, \* the events passed to those calls
    forceHide,      \* AccessibleTooltipButton: this.props.forceHide
    labelled,       \* AccessibleTooltipButton: tooltip || title is truthy
    hover,          \* AccessibleTooltipButton: this.state.hover
    hoverSetBy,     \* the method whose setState gave this.state.hover
    queuedHover,    \* the hover of the setState calls not yet rendered
    queuedBy,       \* the method that made the last of those calls
    queuedForceHide, \* the forceHide of a parent render not yet committed
    prevForceHide,  \* prevProps.forceHide of the last commit
    didUpdateDue,   \* componentDidUpdate has to run for the last commit
    tip             \* render: a Tooltip is part of the output

vars == <<input, parsed, pc, walker, text, isInPara, previousNode, logged,
          results, locationContent, selfLocation, failures,
          needsVerification, hasOtherVerifiedDevices, requestedSessions,
          queuedSessions, effectDue, keyRequests, requestedEvents,
          forceHide, labelled, hover, hoverSetBy, queuedHover, queuedBy,
          queuedForceHide, prevForceHide, didUpdateDue, tip>>

\* The variables of isSelfLocation, which the Markdown class never touches.
locationVars == <<locationContent, selfLocation>>

\* The variables of the markdown processor.
markdownVars == <<input, parsed, pc, walker, text, isInPara, previousNode,
                  logged, results>>

\* The variables of the DecryptionFailureBar component.
barVars == <<failures, needsVerification, hasOtherVerifiedDevices,
             requestedSessions, queuedSessions, effectDue, keyRequests,
             requestedEvents>>

\* The variables of the AccessibleTooltipButton component.
tooltipVars == <<forceHide, labelled, hover, hoverSetBy, queuedHover,
                 queuedBy, queuedForceHide, prevForceHide, didUpdateDue,
                 tip>>

\* The variables of the view components.
componentVars == <<barVars, tooltipVars>>

\* No DecryptionFailureBar is mounted.
NoBar ==
    /\ failures = <<>>
    /\ needsVerification = FALSE
    /\ hasOtherVerifiedDevices = FALSE
    /\ requestedSessions = {}
    /\ queuedSessions = {}
    /\ effectDue = FALSE
    /\ keyRequests = [s \in SessionIds |-> 0]
    /\ requestedEvents = {}

\* No AccessibleTooltipButton is mounted.
NoTooltipButton ==
    /\ forceHide = "undefined"
    /\ labelled = FALSE
    /\ hover = FALSE
    /\ hoverSetBy = "constructor"
    /\ queuedHover = NotQueued
    /\ queuedBy = NotQueued
    /\ queuedForceHide = NotQueued
    /\ prevForceHide = "undefined"
    /\ didUpdateDue = FALSE
    /\ tip = FALSE

\* The queries, toHTML once for each value of externalLinks.
Queries == {"isPlainText", "toHTML", "toHTMLExternal", "toPlaintext"}

\* The constructor up to the call of escapeLinks, for one input.
Constructor(s) ==
    /\ input = s
    /\ parsed = Parse(s)
    /\ pc = "escapeLinks"
    /\ walker = [cur |-> Root, entering |-> TRUE]
    /\ text = <<>>
    /\ isInPara = FALSE
    /\ previousNode = 0
    /\ logged = {}
    /\ results = [q \in Queries |-> NoResult]
    /\ locationContent = NoContent
    /\ selfLocation = NoResult
    /\ NoBar
    /\ NoTooltipButton

Init == \E s \in Inputs : Constructor(s)

InitEscapes == \E s \in EscapeInputs : Constructor(s)

InitBlocks == \E s \in BlockInputs : Constructor(s)

\* The tree and the log after the body of the loop of escapeLinks has
\* handled one event inside a paragraph.
EmphStep(st, node, entering, prevNode, buffer) ==
    IF st.tbl[node].type = "emph" /\ st.tbl[prevNode].type = "text"
    THEN IF entering
         THEN FixLinks(st, node, prevNode, buffer, Find(buffer))
         ELSE [st EXCEPT !.tbl = Blank(st.tbl, node)]
    ELSE st

\* The text buffer after one event inside a paragraph.
TextStep(tbl, node, buffer) ==
    LET cleared ==
            IF \/ tbl[node].type \in {"softbreak", "linebreak"}
               \/ (tbl[node].type = "text" /\ tbl[node].literal = <<Space>>)
            THEN <<>> ELSE buffer
    IN IF tbl[node].type = "text" THEN cleared \o tbl[node].literal
       ELSE cleared

\* One turn of the loop of escapeLinks: walker.next() and the loop's body.
\* The loop ends, and the constructor returns, when the walker has no event
\* left.
EscapeLinksStep ==
    /\ pc = "escapeLinks"
    /\ LET node == walker.cur
           entering == walker.entering
           inPara == IF parsed[node].type = "paragraph" THEN entering
                     ELSE isInPara
           buffer == IF inPara THEN TextStep(parsed, node, text) ELSE text
           nx == WalkerNext(parsed, node, entering)
           st == [tbl |-> parsed, log |-> logged]
           st1 == IF inPara
                  THEN EmphStep(st, node, entering, previousNode, buffer)
                  ELSE st
       IN /\ walker' = nx
          /\ isInPara' = inPara
          /\ text' = buffer
          /\ parsed' = st1.tbl
          /\ logged' = st1.log
          /\ previousNode' = node
          /\ pc' = IF nx.cur = 0 THEN "ready" ELSE "escapeLinks"
    /\ UNCHANGED <<input, results>>
    /\ UNCHANGED locationVars
    /\ UNCHANGED componentVars

\* A query on the constructed processor.
\* A variant that lets the queries run while escapeLinks is still walking.
AnyTime == TRUE

Constructed == pc = "ready"

CallIsPlainText ==
    /\ Constructed
    /\ results' = [results EXCEPT
                     !["isPlainText"] = ReturnedBool(isPlainText(parsed))]
    /\ UNCHANGED <<input, parsed, pc, walker, text, isInPara, previousNode,
                   logged>>
    /\ UNCHANGED locationVars
    /\ UNCHANGED componentVars

CallToHTML ==
    /\ Constructed
    /\ \E externalLinks \in BOOLEAN :
          results' = [results EXCEPT
                        ![IF externalLinks THEN "toHTMLExternal"
                          ELSE "toHTML"] = toHTML(parsed, externalLinks)]
    /\ UNCHANGED <<input, parsed, pc, walker, text, isInPara, previousNode,
                   logged>>
    /\ UNCHANGED locationVars
    /\ UNCHANGED componentVars

CallToPlaintext ==
    /\ Constructed
    /\ results' = [results EXCEPT !["toPlaintext"] = toPlaintext(parsed)]
    /\ UNCHANGED <<input, parsed, pc, walker, text, isInPara, previousNode,
                   logged>>
    /\ UNCHANGED locationVars
    /\ UNCHANGED componentVars

Next ==
    \/ EscapeLinksStep
    \/ CallIsPlainText
    \/ CallToHTML
    \/ CallToPlaintext

Spec == Init /\ [][Next]_vars

SpecBlocks == InitBlocks /\ [][Next]_vars

SpecEscapes == InitEscapes /\ [][Next]_vars

\* isSelfLocation on its own: no Markdown processor is at work.
InitLocation ==
    /\ input = <<>>
    /\ parsed = Parse(<<>>)
    /\ pc = "ready"
    /\ walker = [cur |-> 0, entering |-> FALSE]
    /\ text = <<>>
    /\ isInPara = FALSE
    /\ previousNode = 0
    /\ logged = {}
    /\ results = [q \in Queries |-> NoResult]
    /\ locationContent \in LocationContents
    /\ selfLocation = NoResult
    /\ NoBar
    /\ NoTooltipButton

CallIsSelfLocation ==
    /\ selfLocation' = ReturnedBool(isSelfLocation(locationContent))
    /\ UNCHANGED <<input, parsed, pc, walker, text, isInPara, previousNode,
                   logged, results, locationContent>>
    /\ UNCHANGED componentVars

NextLocation == CallIsSelfLocation

SpecLocation == InitLocation /\ [][NextLocation]_vars

\* No Markdown processor is at work.
NoMarkdown ==
    /\ input = <<>>
    /\ parsed = Parse(<<>>)
    /\ pc = "ready"
    /\ walker = [cur |-> 0, entering |-> FALSE]
    /\ text = <<>>
    /\ isInPara = FALSE
    /\ previousNode = 0
    /\ logged = {}
    /\ results = [q \in Queries |-> NoResult]

\* DecryptionFailureBar after its first render: the states hold their
\* initial values and the effects of the render have yet to run.
InitBar ==
    /\ NoMarkdown
    /\ locationContent = NoContent
    /\ selfLocation = NoResult
    /\ failures \in FailureSets
    /\ needsVerification = FALSE
    /\ hasOtherVerifiedDevices = FALSE
    /\ requestedSessions = {}
    /\ queuedSessions = {}
    /\ effectDue = TRUE
    /\ keyRequests = [s \in SessionIds |-> 0]
    /\ requestedEvents = {}
    /\ NoTooltipButton

\* A render: the queued updaters of setRequestedSessions are applied to the
\* state, and the key request effect is due when one of its dependencies
\* has changed.
RenderBar(changed) ==
    /\ requestedSessions' = requestedSessions \cup queuedSessions
    /\ queuedSessions' = {}
    /\ effectDue' = (changed \/ queuedSessions # {})

\* The key request effect, run after the render it belongs to.
RequestEffect ==
    /\ effectDue
    /\ LET done == RequestKeys(needsVerification, hasOtherVerifiedDevices,
                               failures, requestedSessions)
       IN /\ keyRequests' =
                [s \in SessionIds |->
                    LET n == keyRequests[s] + CallsFor(done.calls, s)
                    IN IF n > MaxKeyRequests THEN MaxKeyRequests ELSE n]
          /\ requestedEvents' =
                requestedEvents \cup {done.calls[i] : i \in DOMAIN done.calls}
          /\ queuedSessions' = queuedSessions \cup done.newRequestedSessions
    /\ effectDue' = FALSE
    /\ UNCHANGED <<failures, needsVerification, hasOtherVerifiedDevices,
                   requestedSessions>>
    /\ UNCHANGED <<markdownVars, locationVars, tooltipVars>>

\* The render the queued setRequestedSessions calls ask for.
RenderRequestedSessions ==
    /\ ~effectDue
    /\ queuedSessions # {}
    /\ RenderBar(FALSE)
    /\ UNCHANGED <<failures, needsVerification, hasOtherVerifiedDevices,
                   keyRequests, requestedEvents>>
    /\ UNCHANGED <<markdownVars, locationVars, tooltipVars>>

\* The parent renders the bar with a new failures Set; the effects of the
\* last render have run before a new render starts.
SetFailures ==
    /\ ~effectDue
    /\ \E f \in FailureSets : failures' = f
    /\ RenderBar(TRUE)
    /\ UNCHANGED <<needsVerification, hasOtherVerifiedDevices, keyRequests,
                   requestedEvents>>
    /\ UNCHANGED <<markdownVars, locationVars, tooltipVars>>

\* updateDeviceInfo: setNeedsVerification(!verified)
SetNeedsVerification ==
    /\ ~effectDue
    /\ needsVerification' = ~needsVerification
    /\ RenderBar(TRUE)
    /\ UNCHANGED <<failures, hasOtherVerifiedDevices, keyRequests,
                   requestedEvents>>
    /\ UNCHANGED <<markdownVars, locationVars, tooltipVars>>

\* updateDeviceInfo: setHasOtherVerifiedDevices(otherVerifiedDevices)
SetHasOtherVerifiedDevices ==
    /\ ~effectDue
    /\ hasOtherVerifiedDevices' = ~hasOtherVerifiedDevices
    /\ RenderBar(TRUE)
    /\ UNCHANGED <<failures, needsVerification, keyRequests,
                   requestedEvents>>
    /\ UNCHANGED <<markdownVars, locationVars, tooltipVars>>

NextBar ==
    \/ RequestEffect
    \/ RenderRequestedSessions
    \/ SetFailures
    \/ SetNeedsVerification
    \/ SetHasOtherVerifiedDevices

SpecBar == InitBar /\ [][NextBar]_vars

\* AccessibleTooltipButton after it was mounted: the constructor has set
\* hover to false and render has run once.
InitTooltip ==
    /\ NoMarkdown
    /\ locationContent = NoContent
    /\ selfLocation = NoResult
    /\ NoBar
    /\ forceHide \in ForceHideValues
    /\ labelled \in BOOLEAN
    /\ hover = FALSE
    /\ hoverSetBy = "constructor"
    /\ queuedHover = NotQueued
    /\ queuedBy = NotQueued
    /\ queuedForceHide = NotQueued
    /\ prevForceHide = forceHide
    /\ didUpdateDue = FALSE
    /\ tip = FALSE

\* A mouse-over or a focus event: onMouseOver and onFocus are both
\* showTooltip. The handlers run between two commits.
ShowTooltipEvent ==
    /\ ~didUpdateDue
    /\ queuedHover' = showTooltip(forceHide, queuedHover)
    /\ queuedBy' = IF forceHide = "true" THEN queuedBy ELSE "showTooltip"
    /\ UNCHANGED <<forceHide, labelled, hover, hoverSetBy, queuedForceHide,
                   prevForceHide, didUpdateDue, tip>>
    /\ UNCHANGED <<markdownVars, locationVars, barVars>>

\* A mouse-leave or a blur event: onMouseLeave and onBlur are both
\* hideTooltip.
HideTooltipEvent ==
    /\ ~didUpdateDue
    /\ queuedHover' = hideTooltip(queuedHover)
    /\ queuedBy' = "hideTooltip"
    /\ UNCHANGED <<forceHide, labelled, hover, hoverSetBy, queuedForceHide,
                   prevForceHide, didUpdateDue, tip>>
    /\ UNCHANGED <<markdownVars, locationVars, barVars>>

\* The parent renders the button with a value for forceHide.
SetForceHide ==
    /\ ~didUpdateDue
    /\ \E v \in ForceHideValues : queuedForceHide' = v
    /\ UNCHANGED <<forceHide, labelled, hover, hoverSetBy, queuedHover,
                   queuedBy, prevForceHide, didUpdateDue, tip>>
    /\ UNCHANGED <<markdownVars, locationVars, barVars>>

\* render and commit: the new props and the queued state take effect
\* together, and componentDidUpdate is due.
RenderTooltipButton ==
    /\ ~didUpdateDue
    /\ queuedHover # NotQueued \/ queuedForceHide # NotQueued
    /\ prevForceHide' = forceHide
    /\ forceHide' = IF queuedForceHide = NotQueued THEN forceHide
                    ELSE queuedForceHide
    /\ hover' = IF queuedHover = NotQueued THEN hover
                ELSE queuedHover = "true"
    /\ hoverSetBy' = IF queuedHover = NotQueued THEN hoverSetBy ELSE queuedBy
    /\ tip' = (hover' /\ labelled)
    /\ queuedHover' = NotQueued
    /\ queuedBy' = NotQueued
    /\ queuedForceHide' = NotQueued
    /\ didUpdateDue' = TRUE
    /\ UNCHANGED labelled
    /\ UNCHANGED <<markdownVars, locationVars, barVars>>

ComponentDidUpdate ==
    /\ didUpdateDue
    /\ queuedHover' =
          componentDidUpdate(prevForceHide, forceHide, hover, queuedHover)
    /\ queuedBy' = IF queuedHover' = queuedHover THEN queuedBy
                   ELSE "componentDidUpdate"
    /\ didUpdateDue' = FALSE
    /\ UNCHANGED <<forceHide, labelled, hover, hoverSetBy, queuedForceHide,
                   prevForceHide, tip>>
    /\ UNCHANGED <<markdownVars, locationVars, barVars>>

NextTooltip ==
    \/ ShowTooltipEvent
    \/ HideTooltipEvent
    \/ SetForceHide
    \/ RenderTooltipButton
    \/ ComponentDidUpdate

SpecTooltip == InitTooltip /\ [][NextTooltip]_vars




\* ------------------------------------------------------------- properties
\* The nodes escapeLinks has inserted: the parser numbers its own nodes
\* 1..Len(Parse(input)).
Inserted == {n \in DOMAIN parsed : n > Len(Parse(input))}

NodesOfType(types) == {n \in DOMAIN parsed : parsed[n].type \in types}

HtmlQueries == {"toHTML", "toHTMLExternal"}

RenderQueries == HtmlQueries \cup {"toPlaintext"}

HasEm(str) == \E i \in 1..Len(str) : str[i] \in {"<em>", "</em>"}

Range(f) == {f[i] : i \in DOMAIN f}

\* The anchors toHTML can emit around a link text, and whether an output
\* holds one.
AnchorFor(link, externalLinks) ==
    <<AnchorOpen(link, NullLit, externalLinks)>> \o link \o <<"</a>">>

HasAnchorTag(str) ==
    \E i \in 1..Len(str) :
       str[i] \in {"</a>"} \cup {AnchorOpen(l, NullLit, e) :
                                   l \in Range(Find(input)), e \in BOOLEAN}

\* The input is one link from end to end, and each of its emphasis spans
\* holds one text.
OneLinkInput ==
    /\ Find(input) = <<input>>
    /\ \A n \in NodesOfType({"emph"}) :
          parsed[n].firstChild = parsed[n].lastChild

C2_NoThrow == \A q \in Queries : results[q].kind # "TypeError"

\* The emphasis nodes that do not carry the empty-string sentinel.
LiveEmph == {n \in NodesOfType({"emph"}) : parsed[n].literal # <<>>}

\* C3 as stated: in toHTML() and toPlaintext() an emphasis node whose
\* literal is not the empty-string sentinel is rendered as <em>, its
\* children, </em>.
C3_DefaultEmph ==
    \A q \in RenderQueries :
       (Constructed /\ LiveEmph # {} /\ results[q].kind # "none")
       => /\ results[q].kind = "returned"
          /\ Contains(results[q].str, <<"<em>">>)
          /\ Contains(results[q].str, <<"</em>">>)

\* C4 as stated: when the token reconstructed for an emphasis node yields
\* zero or more than one link, the rewrite is skipped for that node: no
\* text node is inserted for it and, after construction, it is still a
\* normal emphasis node (literal not the sentinel, child literal unchanged).
C4_SkippedStaysEmphasis ==
    Constructed
    => \A e \in logged :
          /\ Len(Find(e.newText)) # 1
          /\ \A m \in Inserted : parsed[m].next # e.node
          /\ parsed[e.node].type = "emph"
          /\ parsed[e.node].literal # <<>>
          /\ parsed[parsed[e.node].firstChild].literal
                = Parse(input)[parsed[e.node].firstChild].literal

\* The allow-list as the claims state it: exactly <t> or </t> for t in
\* {sub, sup, del, u}, an opening <div>/<span> whose only attribute is
\* data-mx-maths, or </div>/</span>.
ClaimAllowed(lit) ==
    Len(lit) = 1 /\ lit[1] \in {TagU, TagUClose, TagSpanMaths, TagSpanClose}

ClaimTextKinds == {"text", "softbreak", "linebreak", "paragraph", "document"}

HtmlNodes == NodesOfType({"html_inline", "html_block"})

\* The nodes of a set in document order (the parser numbers them so).
InOrder(ns) == SelectSeq([i \in 1..Len(parsed) |-> i], LAMBDA n : n \in ns)

\* The live tags of an output, in order.
LiveTags(str) == SelectSeq(str, LAMBDA x : x \in Tags)

\* C5: in toHTML() an html_inline or html_block node is emitted verbatim
\* if and only if its literal satisfies the allow-list; every other
\* literal is HTML-escaped, so the live tags of the output are exactly the
\* allow-listed literals of the tree, in document order.
C5_OnlyAllowedTagsLive ==
    \A q \in HtmlQueries :
       (Constructed /\ results[q].kind = "returned")
       => /\ LiveTags(results[q].str)
               = LET ns == InOrder({n \in HtmlNodes :
                                      ClaimAllowed(parsed[n].literal)})
                 IN [k \in 1..Len(ns) |-> parsed[ns[k]].literal[1]]
          /\ \A n \in HtmlNodes :
                Contains(results[q].str,
                         IF ClaimAllowed(parsed[n].literal)
                         THEN parsed[n].literal
                         ELSE Esc(parsed[n].literal))

C5_Witness ==
    /\ Constructed
    /\ results["toHTML"].kind = "returned"
    /\ \E n \in HtmlNodes : ClaimAllowed(parsed[n].literal)
    /\ \E n \in HtmlNodes : ~ClaimAllowed(parsed[n].literal)

\* C6 as stated: an html node is harmless to isPlainText() only if its
\* literal matches the allow-list; an html node whose literal does not
\* match makes isPlainText() return false.
C6_Original ==
    (/\ Constructed
     /\ results["isPlainText"].kind = "returned"
     /\ \E n \in HtmlNodes : ~ClaimAllowed(parsed[n].literal))
    => results["isPlainText"].bool = FALSE

\* C6: isPlainText() returns false when an html node's literal matches the
\* allow-list (the tag will be rendered, so HTML is needed), and an html
\* node whose literal does not match is harmless: a tree of text kinds and
\* unmatched html nodes is plain text.
C6_AllowedHtmlIsNotPlain ==
    (Constructed /\ results["isPlainText"].kind = "returned")
    => /\ (\E n \in HtmlNodes : ClaimAllowed(parsed[n].literal))
             => results["isPlainText"].bool = FALSE
       /\ (\A n \in DOMAIN parsed :
              \/ parsed[n].type \in ClaimTextKinds
              \/ n \in HtmlNodes /\ ~ClaimAllowed(parsed[n].literal))
             => results["isPlainText"].bool = TRUE

C6_Witness ==
    /\ Constructed
    /\ results["isPlainText"] = ReturnedBool(TRUE)
    /\ HtmlNodes # {}

\* C7: isPlainText() returns false when the tree holds a node whose kind
\* is neither one of text, softbreak, linebreak, paragraph, document nor
\* html_inline/html_block, and returns true for a tree made only of
\* document, paragraph, text, softbreak and linebreak nodes.
C7_OtherKindsNotPlain ==
    (Constructed /\ results["isPlainText"].kind # "none")
    => /\ results["isPlainText"].kind = "returned"
       /\ (\E n \in DOMAIN parsed :
              parsed[n].type \notin
                 ClaimTextKinds \cup {"html_inline", "html_block"})
             => results["isPlainText"].bool = FALSE
       /\ (\A n \in DOMAIN parsed : parsed[n].type \in ClaimTextKinds)
             => results["isPlainText"].bool = TRUE

C7_Witness ==
    /\ Constructed
    /\ results["isPlainText"] = ReturnedBool(FALSE)
    /\ HtmlNodes = {}
    /\ NodesOfType({"heading"}) # {}
    /\ NodesOfType({"emph"}) = {}

PlainSyms == {Letter, Space, Quote, URL}

PlainInput == \A i \in 1..Len(input) : input[i] \in PlainSyms

Count(str, x) == Len(SelectSeq(str, LAMBDA y : y = x))

\* C10: in toHTML() a paragraph is wrapped in <p>...</p> only if the root
\* of its tree has more than one top-level child: a document with a single
\* top-level block is rendered with no <p> or </p> at all, and in a
\* document with several each paragraph gets its own <p>...</p>.
C10_ParagraphWrap ==
    \A q \in HtmlQueries :
       (Constructed /\ results[q].kind = "returned")
       => IF parsed[Root].firstChild = parsed[Root].lastChild
          THEN Count(results[q].str, "<p>") = 0
               /\ Count(results[q].str, "</p>") = 0
          ELSE Count(results[q].str, "<p>")
                  = Cardinality(NodesOfType({"paragraph"}))
               /\ Count(results[q].str, "</p>")
                  = Cardinality(NodesOfType({"paragraph"}))

C10_Witness ==
    /\ Constructed
    /\ parsed[Root].firstChild # parsed[Root].lastChild
    /\ Cardinality(NodesOfType({"paragraph"})) = 2
    /\ results["toHTML"].kind = "returned"
    /\ Count(results["toHTML"].str, "<p>") = 2

\* The opening tag an anchor must have for a link node, written out for the
\* two links of the model.
ExpectedAnchor(n, externalLinks) ==
    IF parsed[n].title = <<>>
    THEN IF externalLinks
         THEN "<a href=\"http://e.com/\" target=\"_blank\" rel=\"noreferrer noopener\">"
         ELSE "<a href=\"http://e.com/\">"
    ELSE IF externalLinks
         THEN "<a href=\"http://e.com/&amp;\" title=\"t&quot;\" target=\"_blank\" rel=\"noreferrer noopener\">"
         ELSE "<a href=\"http://e.com/&amp;\" title=\"t&quot;\">"

\* Every tag an output can hold that opens an anchor.
AnchorTags ==
    {"<a href=\"http://e.com/\" target=\"_blank\" rel=\"noreferrer noopener\">",
     "<a href=\"http://e.com/\">",
     "<a href=\"http://e.com/&amp;\" title=\"t&quot;\" target=\"_blank\" rel=\"noreferrer noopener\">",
     "<a href=\"http://e.com/&amp;\" title=\"t&quot;\">"}

\* C11: in toHTML() every link node is emitted as an anchor with the
\* escaped destination as href and the escaped title when there is one, and
\* the anchor carries target="_blank" and rel="noreferrer noopener" if and
\* only if the call was made with externalLinks true: the anchors of the
\* output are, in document order, the expected tags of the link nodes, each
\* closed by </a>.
C11_LinkAnchors ==
    \A q \in HtmlQueries :
       (Constructed /\ results[q].kind = "returned")
       => LET ns == InOrder(NodesOfType({"link"}))
          IN /\ SelectSeq(results[q].str, LAMBDA x : x \in AnchorTags)
                   = [k \in 1..Len(ns) |->
                         ExpectedAnchor(ns[k], q = "toHTMLExternal")]
             /\ Count(results[q].str, "</a>") = Len(ns)

C11_Witness ==
    /\ Constructed
    /\ results["toHTML"].kind = "returned"
    /\ results["toHTMLExternal"].kind = "returned"
    /\ results["toHTML"] # results["toHTMLExternal"]
    /\ \E n \in NodesOfType({"link"}) : parsed[n].title # <<>>
    /\ \E n \in NodesOfType({"link"}) : parsed[n].title = <<>>

\* The emphasis nodes that carry the empty-string sentinel, and the tree
\* without their children.
SentinelEmph == {n \in NodesOfType({"emph"}) : parsed[n].literal = <<>>}

WithoutSentinelChildren ==
    [n \in DOMAIN parsed |->
        IF n \in SentinelEmph
        THEN [parsed[n] EXCEPT !.firstChild = 0, !.lastChild = 0]
        ELSE parsed[n]]

\* What a query gives on a tree.
QueryOn(q, tbl) ==
    CASE q = "toHTML" -> toHTML(tbl, FALSE)
      [] q = "toHTMLExternal" -> toHTML(tbl, TRUE)
      [] q = "toPlaintext" -> toPlaintext(tbl)
      [] q = "isPlainText" -> ReturnedBool(isPlainText(tbl))

\* C12 as stated: in toHTML() and toPlaintext() an emphasis node carrying
\* the empty-string sentinel is suppressed entirely: no <em> or </em> is
\* emitted for it and none of its children contribute anything, so the
\* output is that of the tree without the children of such nodes.
C12_SentinelSuppressed ==
    \A q \in RenderQueries :
       (Constructed /\ SentinelEmph # {} /\ results[q].kind # "none")
       => /\ results[q].kind = "returned" => ~HasEm(results[q].str)
          /\ results[q] = QueryOn(q, WithoutSentinelChildren)

\* The tree holds nothing but paragraphs of text and soft line breaks: the
\* input used markdown syntax for escaping only.
OnlyEscaping ==
    \A n \in DOMAIN parsed :
       parsed[n].type \in {"document", "paragraph", "text", "softbreak"}

\* The text of such a tree: the text literals as they are, a line end for a
\* soft break and a blank line between two paragraphs.
RECURSIVE VerbatimFrom(_)
VerbatimFrom(n) ==
    IF n > Len(parsed) THEN <<>>
    ELSE (CASE parsed[n].type = "text" -> parsed[n].literal
            [] parsed[n].type = "softbreak" -> <<Newline>>
            [] parsed[n].type = "paragraph" /\ parsed[n].prev # 0
                 -> <<Newline, Newline>>
            [] OTHER -> <<>>)
         \o VerbatimFrom(n + 1)

\* C13 as stated: toPlaintext() is lossless for input that uses markdown
\* syntax only for escaping: the text literals are returned verbatim with
\* the escaping backslashes removed and no HTML introduced.
C13_PlaintextVerbatim ==
    (Constructed /\ OnlyEscaping /\ results["toPlaintext"].kind # "none")
    => results["toPlaintext"] = Returned(VerbatimFrom(1))

PlainMode == [plain |-> TRUE, externalLinks |-> FALSE]

\* The document that holds the top-level block b of the tree and nothing
\* else.
AloneInDocument(b) ==
    [parsed EXCEPT ![Root].firstChild = b, ![Root].lastChild = b,
                   ![b].prev = 0, ![b].next = 0]

\* The output toPlaintext() must give from the top-level block b on, the
\* renderer being r: each block as it is rendered in a document of its own,
\* then a blank line if it is a paragraph or an html_block, the document has
\* several blocks and the block is not the last.
RECURSIVE BlockByBlock(_, _)
BlockByBlock(b, r) ==
    IF b = 0 \/ r.threw THEN r
    ELSE LET r1 == RenderFrom(PlainMode, AloneInDocument(b), b, TRUE, r)
             r2 == IF /\ parsed[b].type \in {"paragraph", "html_block"}
                      /\ parsed[Root].firstChild # parsed[Root].lastChild
                      /\ parsed[b].next # 0
                   THEN Lit(r1, <<Newline, Newline>>)
                   ELSE r1
         IN BlockByBlock(parsed[b].next, r2)

\* C14: in toPlaintext() a blank line is appended after a paragraph's
\* content, and after an html_block's verbatim literal, if and only if the
\* document has more than one top-level block and the block is not the last
\* one; nothing is appended after the last block or in a single-block
\* document, and no <p> tag is ever emitted.
C14_PlainBlankLines ==
    (Constructed /\ results["toPlaintext"].kind = "returned")
    => /\ results["toPlaintext"]
             = Rendered(BlockByBlock(parsed[Root].firstChild, NewRenderer))
       /\ Count(results["toPlaintext"].str, "<p>") = 0
       /\ Count(results["toPlaintext"].str, "</p>") = 0
       /\ \A b \in NodesOfType({"html_block"}) :
             Contains(results["toPlaintext"].str, parsed[b].literal)

C14_Witness ==
    /\ Constructed
    /\ results["toPlaintext"].kind = "returned"
    /\ parsed[Root].firstChild # 0
    /\ parsed[parsed[Root].firstChild].type = "html_block"
    /\ parsed[parsed[Root].lastChild].type = "paragraph"
    /\ parsed[parsed[Root].firstChild].next = parsed[Root].lastChild
    /\ Count(results["toPlaintext"].str, Newline) = 2

\* The tree in which a text that reads <br /> stands for each softbreak.
SoftbreaksAsTags ==
    [n \in DOMAIN parsed |->
        IF parsed[n].type = "softbreak"
        THEN [parsed[n] EXCEPT !.type = "text", !.literal = <<"<br />">>]
        ELSE parsed[n]]

\* C15: in toHTML() every softbreak node is rendered as an explicit
\* <br /> tag and never as a bare newline: the output is what the tree gives
\* with the text <br /> in the place of each softbreak, and it holds one
\* <br /> for each softbreak and each hard line break.
C15_SoftbreakAsBr ==
    \A q \in HtmlQueries :
       (Constructed /\ results[q].kind = "returned")
       => /\ results[q] = QueryOn(q, SoftbreaksAsTags)
          /\ Count(results[q].str, "<br />")
                = Cardinality(NodesOfType({"softbreak", "linebreak"}))
          /\ NodesOfType({"linebreak"}) = {}
                /\ parsed[Root].firstChild = parsed[Root].lastChild
                => Count(results[q].str, Newline) = 0

C15_Witness ==
    /\ Constructed
    /\ results["toHTML"].kind = "returned"
    /\ Cardinality(NodesOfType({"softbreak"})) = 1
    /\ NodesOfType({"linebreak"}) = {}
    /\ Count(results["toHTML"].str, "<br />") = 1
    /\ Count(results["toHTML"].str, Newline) = 0

\* The asset isSelfLocation looks at, and its type.
FoundAsset == findIn(locationContent)

\* C16: isSelfLocation(content) returns true when the content has no
\* m.asset, when its m.asset has no type, and when the asset type is Self;
\* it returns false for every other asset type, including unknown ones.
C16_SelfLocation ==
    selfLocation.kind # "none"
    => /\ selfLocation.kind = "returned"
       /\ FoundAsset.kind # "object" => selfLocation.bool = TRUE
       /\ (FoundAsset.kind = "object" /\ FoundAsset.type = Undefined)
             => selfLocation.bool = TRUE
       /\ (FoundAsset.kind = "object" /\ FoundAsset.type = Str("m.self"))
             => selfLocation.bool = TRUE
       /\ (/\ FoundAsset.kind = "object"
           /\ FoundAsset.type.kind = "string"
           /\ FoundAsset.type # Str("m.self"))
             => selfLocation.bool = FALSE

C16_Witness ==
    /\ selfLocation = ReturnedBool(FALSE)
    /\ FoundAsset = ObjectAsset(Str("org.example.unknown"))

\* The walk is about to enter an emphasis node inside a paragraph, and the
\* node's immediately preceding sibling is a text node.
EnteringEmphAfterText ==
    /\ pc = "escapeLinks"
    /\ walker.entering
    /\ parsed[walker.cur].type = "emph"
    /\ isInPara
    /\ parsed[walker.cur].prev # 0
    /\ parsed[parsed[walker.cur].prev].type = "text"

\* The literal of the emphasis node's child between two underscores.
Underscored(node) ==
    <<Underscore>> \o parsed[parsed[node].firstChild].literal
                  \o <<Underscore>>

\* Some link of the buffer gives a reconstructed token that holds exactly
\* one link.
TokenHasOneLink(node, buffer) ==
    \E value \in Range(Find(buffer)) :
       Len(Find(value \o Underscored(node)
                      \o getTextUntilEndOrLinebreak(parsed, node))) = 1

\* C17: on entering an emphasis node inside a paragraph whose immediately
\* preceding sibling is a text node, the fix is applied if and only if, for
\* a link found in the buffer, the reconstructed token (link text, '_',
\* child literal, '_', forward tail) holds exactly one link; when applied, a
\* new text node with the literal '_' child literal '_' sits immediately
\* after the preceding text sibling and before the emphasis node, and the
\* literals of the emphasis node and of its child are empty strings;
\* otherwise the tree stays as it is.
C17_FixStep ==
    [][EnteringEmphAfterText
       => LET node == walker.cur
              sibling == parsed[node].prev
              m == Len(parsed) + 1
          IN IF TokenHasOneLink(node, text')
             THEN /\ Len(parsed') = m
                  /\ parsed'[m].type = "text"
                  /\ parsed'[m].literal = Underscored(node)
                  /\ parsed'[m].parent = parsed[node].parent
                  /\ parsed'[m].prev = sibling
                  /\ parsed'[m].next = node
                  /\ parsed'[sibling].next = m
                  /\ parsed'[node].prev = m
                  /\ parsed'[node].literal = <<>>
                  /\ parsed'[parsed[node].firstChild].literal = <<>>
                  /\ \A n \in DOMAIN parsed :
                        n \notin {sibling, node, parsed[node].firstChild}
                        => parsed'[n] = parsed[n]
             ELSE parsed' = parsed]_vars

\* The walk has just applied the fix to the emphasis node it entered.
C17_Witness ==
    /\ pc = "escapeLinks"
    /\ previousNode # 0
    /\ parsed[previousNode].type = "emph"
    /\ walker = [cur |-> parsed[previousNode].firstChild, entering |-> TRUE]
    /\ parsed[previousNode].literal = <<>>
    /\ parsed[previousNode].prev \in Inserted
    /\ Len(input) >= 4

\* The emphasis node e was parsed with a text node as its immediately
\* preceding sibling: the walk examined it on entering.
PrecededByText(e) ==
    LET tree == Parse(input)
    IN tree[e].prev # 0 /\ tree[tree[e].prev].type = "text"

\* C18 as stated: on exit the walk blanks the literal of an emphasis node
\* and of its child exactly for the emphasis nodes whose immediately
\* preceding sibling was a text node, whether or not the fix was applied
\* on entering; an emphasis node not preceded by a text sibling is not
\* blanked, so after construction the blanked nodes are those preceded by a
\* text.
C18_ExitBlanking ==
    Constructed
    => \A e \in NodesOfType({"emph"}) :
          (/\ parsed[e].literal = <<>>
           /\ parsed[parsed[e].firstChild].literal = <<>>)
          <=> PrecededByText(e)

\* A node at which the buffer starts again.
IsBoundary(n) ==
    \/ parsed[n].type \in {"softbreak", "linebreak"}
    \/ parsed[n].type = "text" /\ parsed[n].literal = <<Space>>

RECURSIVE InParagraph(_)
InParagraph(n) ==
    /\ n # 0
    /\ parsed[n].parent # 0
    /\ \/ parsed[parsed[n].parent].type = "paragraph"
       \/ InParagraph(parsed[n].parent)

\* The run the buffer must hold when the walk reaches node n of a
\* paragraph, from the paragraph's first node on: empty after a boundary
\* node, longer by its literal after any other text node.
RECURSIVE RunUpTo(_, _, _)
RunUpTo(from, n, run) ==
    IF from >= n THEN run
    ELSE RunUpTo(from + 1, n,
                 IF IsBoundary(from) THEN <<>>
                 ELSE IF parsed[from].type = "text"
                 THEN run \o parsed[from].literal
                 ELSE run)

\* C19 as stated: during the walk the in-paragraph flag is true exactly
\* between the enter and the exit event of a paragraph; the buffer is empty
\* right after a softbreak, a linebreak or a single-space text node; and
\* when an emphasis node is entered the buffer holds the literals of the
\* text nodes visited in the current paragraph since the most recent such
\* node (stated for the first emphasis node of the tree, before which the
\* walk has changed nothing).
C19_RollingBuffer ==
    (pc = "escapeLinks" /\ previousNode # 0)
    => /\ isInPara
             <=> \/ InParagraph(previousNode)
                 \/ /\ parsed[previousNode].type = "paragraph"
                    /\ walker.entering
                    /\ walker.cur = parsed[previousNode].firstChild
       /\ (isInPara /\ IsBoundary(previousNode)) => text = <<>>
       /\ (/\ walker.entering
           /\ parsed[walker.cur].type = "emph"
           /\ parsed[parsed[walker.cur].parent].type = "paragraph"
           /\ \A n \in 1..(walker.cur - 1) : parsed[n].type # "emph")
             => text = RunUpTo(parsed[walker.cur].parent + 1, walker.cur,
                               <<>>)

\* The emphasis nodes the enter-time fix was not applied to: no text node
\* was inserted before them.
NotFixed ==
    {e \in NodesOfType({"emph"}) : \A m \in Inserted : parsed[m].next # e}

\* C20 as stated: construction never loses text: an emphasis node the
\* enter-time fix was not applied to still has a non-sentinel literal and
\* its original child literal after construction, and the text it
\* emphasizes appears in what toHTML() and toPlaintext() return.
C20_NoTextLost ==
    Constructed
    => \A e \in NotFixed :
          LET child == parsed[e].firstChild
              original == Parse(input)[child]
          IN /\ parsed[e].literal # <<>>
             /\ parsed[child].literal = original.literal
             /\ \A q \in RenderQueries :
                   (original.type = "text" /\ results[q].kind # "none")
                   => /\ results[q].kind = "returned"
                      /\ Contains(results[q].str, Esc(original.literal))

\* C21: the rewrite inserts at most one new text node per emphasis node,
\* even when the buffer holds several links: one turn of the walk adds at
\* most one node, and when it adds one nothing is logged for the remaining
\* links; every inserted node sits immediately before an emphasis node of
\* the parsed tree and after a node that was not inserted, no two of them
\* before the same node; and the walk never visits an inserted node.
C21_OneInsertion ==
    [][LET inserted == (Len(Parse(input)) + 1)..Len(parsed')
       IN /\ Len(parsed') <= Len(parsed) + 1
          /\ Len(parsed') = Len(parsed) + 1 => logged' = logged
          /\ \A m \in inserted :
                /\ parsed'[m].next \notin inserted
                /\ parsed'[m].next # 0
                /\ parsed'[parsed'[m].next].type = "emph"
                /\ parsed'[m].prev \notin inserted
                /\ \A k \in inserted :
                      parsed'[k].next = parsed'[m].next => k = m
          /\ walker'.cur \notin inserted
          /\ previousNode' \notin inserted]_vars

\* The walk has just applied the fix to an emphasis node whose buffer held
\* more than one link.
C21_Witness ==
    /\ pc = "escapeLinks"
    /\ previousNode # 0
    /\ parsed[previousNode].type = "emph"
    /\ walker = [cur |-> parsed[previousNode].firstChild, entering |-> TRUE]
    /\ parsed[previousNode].prev \in Inserted
    /\ Len(Find(text)) >= 2
    /\ Cardinality(Inserted) = 1

\* The sessions of the events that can be found and have a session id.
RequestableEvents ==
    {e \in EventIds : /\ findEventById(e).kind = "event"
                      /\ ~Falsy(findEventById(e).session_id)}

\* C22: across any sequence of renders with new failures, new device
\* information and re-runs of the key request effect,
\* cancelAndResendEventRoomKeyRequest is called at most once for each
\* session id, a run of the effect calls it only while the device does not
\* need verification and another verified device exists, and an event that
\* cannot be found or has no session id is never passed to it.
C22_RequestOncePerSession ==
    [][/\ \A s \in SessionIds : keyRequests'[s] <= 1
       /\ (keyRequests' # keyRequests \/ requestedEvents' # requestedEvents)
             => (~needsVerification /\ hasOtherVerifiedDevices)
       /\ requestedEvents' \subseteq RequestableEvents]_vars

\* The effect has run again for a failures Set that still holds an event of
\* a session requested by an earlier run, next to events that cannot be
\* found or have no session id, and has requested a second session.
C22_Witness ==
    /\ ~effectDue
    /\ ~needsVerification /\ hasOtherVerifiedDevices
    /\ "s1" \in requestedSessions
    /\ queuedSessions = {"s2"}
    /\ keyRequests = [s \in SessionIds |-> 1]
    /\ \E i, j \in 1..Len(failures) :
          /\ findEventById(failures[i]).session_id = Str("s1")
          /\ failures[j] \in {"$e4", "$e5"}

\* componentDidUpdate has processed the latest props and no setState call
\* or parent render is waiting.
Settled ==
    /\ ~didUpdateDue
    /\ queuedHover = NotQueued
    /\ queuedForceHide = NotQueued

\* C23: after any sequence of mouse-over, focus, mouse-leave and blur
\* events and changes of forceHide, in every settled state with forceHide
\* true hover is false and render has put no Tooltip into its output.
C23_ForceHideHides ==
    (Settled /\ forceHide = "true") => (~hover /\ ~tip)

\* A settled state with forceHide true in which hover is false because
\* componentDidUpdate has reset it.
C23_Witness ==
    /\ Settled
    /\ forceHide = "true"
    /\ labelled
    /\ ~hover
    /\ hoverSetBy = "componentDidUpdate"

=============================================================================
